---- MODULE Spec2Model ----
(***************************************************************************)
(* Model of the notary overlay engine of bot_nl.py                         *)
(* (notary_replace_amount_pdf_purepy): layout extraction, pattern          *)
(* matching, hit resolution, overlay rendering and page compositing.       *)
(*                                                                         *)
(* Text is a sequence of one-character strings; the euro sign is the       *)
(* character EUR.  Lengths are in thousandths of a point, money in cents.  *)
(* Python spans are kept 0-based and half-open: a match [a, b) covers the  *)
(* 1-based positions a+1 .. b.                                             *)
(***************************************************************************)
EXTENDS Integers, Sequences, FiniteSets, TLC

VARIABLES
    sline,      \* the text line under scan (line-level specification)
    shits,      \* hits found on sline, in page_hits order
    stexts,     \* replacement text chosen for each hit of shits
    spc,        \* position of the line-level scan
    new_amount_float,   \* argument of the engine, in cents
    current_date,       \* the string now_nl_date() returned
    doc,                \* the file at base_pdf_path
    pc,                 \* position of the engine in its body
    pageno,             \* index of the next page of the running loop
    matches_by_page,    \* dict: page index -> page_hits
    canv,               \* the overlay canvas: None, or open with a page size
    overlay,            \* overlay pages closed by showPage so far
    writer,             \* pages added to the PdfWriter so far
    result,             \* what the call returned or raised
    run,                \* number of the current invocation
    prev,               \* hits and output of the previous invocation
    sops,               \* what is painted for the hits of shits
    fontfile,           \* fonts/TimesNewRomanPSMT.ttf: absent, present, corrupt
    environ,            \* value of NOTARY_OVERLAY_PCT in the environment
    registry,           \* reportlab's process-wide font registry
    conv,               \* state of the notary conversation
    sent,               \* what notary_amount sent to the chat
    states,             \* state of each ConversationHandler for the chat
    user_data,          \* context.user_data of the user
    mine,               \* per conversation: what its current run wrote
    replies,            \* what the last handled update sent to the chat
    built,              \* the builder calls the last handled update made
    template,           \* whether assets/notarieel.pdf exists
    menus,              \* menu entries taken so far
    last                \* the text of the last handled update

scanvars == <<sline, shits, stexts, spc, sops>>
hostvars == <<fontfile, environ, registry, conv, sent>>
pipevars == <<doc, pc, pageno, matches_by_page, canv, overlay, writer,
              result, run, prev, hostvars>>
botvars == <<states, user_data, mine, replies, built, template, menus, last>>
vars == <<sline, shits, stexts, spc, new_amount_float, current_date,
          doc, pc, pageno, matches_by_page, canv, overlay, writer,
          result, run, prev, sops, fontfile, environ, registry, conv, sent,
          states, user_data, mine, replies, built, template, menus, last>>

(***************************************************************************)
(* Bounds                                                                  *)
(***************************************************************************)
MaxFrags == 3       \* fragments concatenated into one scanned line
MaxPages == 2       \* pages of the source document
MaxRuns == 2        \* invocations chained on their own output

(***************************************************************************)
(* Characters and the classes the patterns use                             *)
(***************************************************************************)
EUR == "EUR"
Digits == {"0", "1", "2", "3", "4", "5", "6", "7", "8", "9"}
Spaces == {" "}
Letters == {"c", "d", "i", "x"}
IsDigit(c) == c \in Digits
IsSpace(c) == c \in Spaces
IsWord(c) == c \in Digits \cup Letters \cup {"_"}
\* the character class [\d\.\s] of both money patterns
InMoneyClass(c) == IsDigit(c) \/ c = "." \/ IsSpace(c)

Min(x, y) == IF x < y THEN x ELSE y
Max(x, y) == IF x > y THEN x ELSE y

RECURSIVE Flatten(_)
Flatten(ss) == IF ss = <<>> THEN <<>> ELSE Head(ss) \o Flatten(Tail(ss))

\* m.group(0) for the span [a, b) of txt
Group(txt, a, b) == SubSeq(txt, a + 1, b)

(***************************************************************************)
(* The four patterns.  XxxEnd(txt, i) is the attempt to match at 1-based   *)
(* position i: the 1-based position of the last matched character, or 0.   *)
(***************************************************************************)
\* first position >= i whose character is outside [\d\.\s] (Len+1 if none)
RECURSIVE ClassRunEnd(_, _)
ClassRunEnd(txt, i) ==
    IF i > Len(txt) \/ ~InMoneyClass(txt[i]) THEN i ELSE ClassRunEnd(txt, i + 1)

\* ,\d{2} at position j
CommaTwoDigits(txt, j) ==
    /\ j + 2 <= Len(txt)
    /\ txt[j] = ","
    /\ IsDigit(txt[j + 1])
    /\ IsDigit(txt[j + 2])

\* €\s?[\d\.\s]+,\d{2}
MoneyLeftEnd(txt, i) ==
    IF txt[i] # EUR THEN 0
    ELSE LET j == ClassRunEnd(txt, i + 1)
         IN  IF j > i + 1 /\ CommaTwoDigits(txt, j) THEN j + 2 ELSE 0

\* [\d\.\s]+,\d{2}\s?€
MoneyRightEnd(txt, i) ==
    IF ~InMoneyClass(txt[i]) THEN 0
    ELSE LET j == ClassRunEnd(txt, i)
         IN  IF ~CommaTwoDigits(txt, j) THEN 0
             ELSE IF j + 4 <= Len(txt) /\ IsSpace(txt[j + 3]) /\ txt[j + 4] = EUR
                  THEN j + 4
             ELSE IF j + 3 <= Len(txt) /\ txt[j + 3] = EUR
                  THEN j + 3
             ELSE 0

\* \b\d{2}<sep>\d{2}<sep>\d{4}\b
DateEnd(txt, i, sep) ==
    IF /\ i + 9 <= Len(txt)
       /\ (i = 1 \/ ~IsWord(txt[i - 1]))
       /\ \A p \in {0, 1, 3, 4, 6, 7, 8, 9} : IsDigit(txt[i + p])
       /\ txt[i + 2] = sep
       /\ txt[i + 5] = sep
       /\ (i + 9 = Len(txt) \/ ~IsWord(txt[i + 10]))
    THEN i + 9
    ELSE 0

money_pats == <<"money_left", "money_right">>
date_pats == <<"date_pat", "date_pat_dots">>

MatchEnd(pat, txt, i) ==
    CASE pat = "money_left"    -> MoneyLeftEnd(txt, i)
      [] pat = "money_right"   -> MoneyRightEnd(txt, i)
      [] pat = "date_pat"      -> DateEnd(txt, i, "-")
      [] pat = "date_pat_dots" -> DateEnd(txt, i, ".")

\* pat.finditer(txt): leftmost matches, scanning resumes after each match
RECURSIVE FindIterFrom(_, _, _)
FindIterFrom(pat, txt, i) ==
    IF i > Len(txt) THEN <<>>
    ELSE LET e == MatchEnd(pat, txt, i)
         IN  IF e > 0
             THEN <<[a |-> i - 1, b |-> e]>> \o FindIterFrom(pat, txt, e + 1)
             ELSE FindIterFrom(pat, txt, i + 1)

FindIter(pat, txt) == FindIterFrom(pat, txt, 1)

(***************************************************************************)
(* The year filter of the amount loop                                      *)
(***************************************************************************)
Contains202(s) ==
    \E i \in 1..(Len(s) - 2) : s[i] = "2" /\ s[i + 1] = "0" /\ s[i + 2] = "2"

SkipAsYear(s) == Contains202(s) /\ Len(s) < 12

(***************************************************************************)
(* Lines and glyphs.  A line is the list of its LTChar records in stream   *)
(* order; a glyph's text may be longer than one character (a ligature, an  *)
(* unmapped "(cid:N)").  Glyph boxes follow from the line origin.          *)
(***************************************************************************)
NOTARY_OVERLAY_PCT == 265

\* the values the environment may hold for NOTARY_OVERLAY_PCT
EnvValues == {"unset", "1.5", "abc"}

\* float(os.getenv("NOTARY_OVERLAY_PCT", "0.265")), in thousandths; a text
\* that is no number makes float raise
FloatRaises == environ \notin {"unset", "1.5"}

OverlayPct ==
    CASE environ = "unset" -> NOTARY_OVERLAY_PCT
      [] environ = "1.5"   -> 1500
      [] OTHER             -> "ValueError"

Chars(line) == line.glyphs
Txt(line) == Flatten([j \in 1..Len(line.glyphs) |-> line.glyphs[j].text])

GlyphX0(line, j) == line.x + (j - 1) * line.adv
GlyphX1(line, j) == line.x + j * line.adv
GlyphY0(line, j) == line.y
GlyphY1(line, j) == line.y + line.glyphs[j].size

\* chars[a:b]: the indices of the glyphs the slice selects
Seg(line, a, b) == (a + 1)..Min(b, Len(Chars(line)))

SetMin(S) == CHOOSE x \in S : \A y \in S : x <= y
SetMax(S) == CHOOSE x \in S : \A y \in S : x >= y

\* statistics.median of the glyph sizes of a segment
Median(sizes) ==
    LET t == SortSeq(sizes, LAMBDA p, q : p < q)
        n == Len(t)
    IN  IF n % 2 = 1 THEN t[(n + 1) \div 2]
        ELSE (t[n \div 2] + t[n \div 2 + 1]) \div 2

_family_and_style(fontname) == <<"TimesNewRomanPS", "regular">>

\* the dict appended to page_hits; a, b and pat record m.span() and the
\* pattern that produced the match
MakeHit(kind, pat, line, m) ==
    LET seg == Seg(line, m.a, m.b)
        first == SetMin(seg)
        sizes == [n \in 1..Cardinality(seg) |-> line.glyphs[first + n - 1].size]
        fs == _family_and_style(line.glyphs[first].font)
    IN  [kind |-> kind,
         x0 |-> SetMin({GlyphX0(line, j) : j \in seg}),
         x1 |-> SetMax({GlyphX1(line, j) : j \in seg}),
         y0 |-> SetMin({GlyphY0(line, j) : j \in seg}),
         y1 |-> SetMax({GlyphY1(line, j) : j \in seg}),
         size |-> Median(sizes),
         family |-> fs[1], style |-> fs[2],
         src |-> Group(Txt(line), m.a, m.b),
         k |-> OverlayPct,
         a |-> m.a, b |-> m.b, pat |-> pat]

\* the matches one amount pattern contributes: the year filter, then the
\* empty-segment skip
RECURSIVE AmountHitsOf(_, _, _)
AmountHitsOf(pat, line, ms) ==
    IF ms = <<>> THEN <<>>
    ELSE LET m == Head(ms)
             rest == AmountHitsOf(pat, line, Tail(ms))
         IN  IF SkipAsYear(Group(Txt(line), m.a, m.b)) THEN rest
             ELSE IF Seg(line, m.a, m.b) = {} THEN rest
             ELSE <<MakeHit("amount", pat, line, m)>> \o rest

\* the matches one date pattern contributes: only the empty-segment skip
RECURSIVE DateHitsOf(_, _, _)
DateHitsOf(pat, line, ms) ==
    IF ms = <<>> THEN <<>>
    ELSE LET m == Head(ms)
             rest == DateHitsOf(pat, line, Tail(ms))
         IN  IF Seg(line, m.a, m.b) = {} THEN rest
             ELSE <<MakeHit("date", pat, line, m)>> \o rest

\* the body of the loop over one text line
LineHits(line) ==
    IF Chars(line) = <<>> THEN <<>>
    ELSE LET txt == Txt(line)
         IN  AmountHitsOf(money_pats[1], line, FindIter(money_pats[1], txt))
             \o AmountHitsOf(money_pats[2], line, FindIter(money_pats[2], txt))
             \o DateHitsOf(date_pats[1], line, FindIter(date_pats[1], txt))
             \o DateHitsOf(date_pats[2], line, FindIter(date_pats[2], txt))

(***************************************************************************)
(* Formatting                                                              *)
(***************************************************************************)
DigitChar(d) ==
    CASE d = 0 -> "0" [] d = 1 -> "1" [] d = 2 -> "2" [] d = 3 -> "3"
      [] d = 4 -> "4" [] d = 5 -> "5" [] d = 6 -> "6" [] d = 7 -> "7"
      [] d = 8 -> "8" [] d = 9 -> "9"

\* n written with exactly w digits (zero padded), n < 10^w
RECURSIVE PadDigits(_, _)
PadDigits(n, w) ==
    IF w = 0 THEN <<>> ELSE Append(PadDigits(n \div 10, w - 1), DigitChar(n % 10))

\* n >= 0 in decimal, without padding
RECURSIVE Decimal(_)
Decimal(n) ==
    IF n < 10 THEN <<DigitChar(n)>> ELSE Append(Decimal(n \div 10), DigitChar(n % 10))

\* the integer part with a separator between groups of three digits
RECURSIVE Grouped(_, _)
Grouped(n, sep) ==
    IF n < 1000 THEN Decimal(n)
    ELSE Grouped(n \div 1000, sep) \o <<sep>> \o PadDigits(n % 1000, 3)

\* f"{value:,.2f}".replace(",", "X").replace(".", ",").replace("X", ".")
FormatNumber(cents) ==
    Grouped(cents \div 100, ".") \o <<",">> \o PadDigits(cents % 100, 2)

RECURSIVE LStrip(_)
LStrip(s) == IF s # <<>> /\ IsSpace(Head(s)) THEN LStrip(Tail(s)) ELSE s

RECURSIVE RStrip(_)
RStrip(s) ==
    IF s # <<>> /\ IsSpace(s[Len(s)]) THEN RStrip(SubSeq(s, 1, Len(s) - 1)) ELSE s

Strip(s) == RStrip(LStrip(s))

\* variant: the euro sign is looked for anywhere in the matched text
_format_like_anywhere(src, value) ==
    LET s == Strip(src)
        eur_left == \E p \in 1..Len(s) : s[p] = EUR
        n_str == FormatNumber(value)
    IN  IF eur_left THEN <<EUR, " ">> \o n_str ELSE n_str \o <<" ", EUR>>

_format_like(src, value) ==
    LET s == Strip(src)
        eur_left == s # <<>> /\ Head(s) = EUR
        n_str == FormatNumber(value)
    IN  IF eur_left THEN <<EUR, " ">> \o n_str ELSE n_str \o <<" ", EUR>>

\* datetime.now(TZ_NL).strftime("%d-%m-%Y")
now_nl_date(today) ==
    PadDigits(today.d, 2) \o <<"-">> \o PadDigits(today.m, 2) \o <<"-">>
        \o PadDigits(today.y, 4)

\* variant: a date hit keeps the separator of the matched text
NewText_keep_separator(hit, amount, date) ==
    IF hit.kind = "amount" THEN _format_like(hit.src, amount)
    ELSE [p \in 1..Len(date) |-> IF date[p] = "-" THEN hit.src[3] ELSE date[p]]

\* new_text of the render loop
NewText(hit, amount, date) ==
    IF hit.kind = "amount" THEN _format_like(hit.src, amount) ELSE date

(***************************************************************************)
(* Inputs                                                                  *)
(***************************************************************************)
Amounts == {98000, 750050}
Todays == {[d |-> 2, m |-> 11, y |-> 2026], [d |-> 31, m |-> 12, y |-> 2024]}

Glyph(c) == [text |-> <<c>>, size |-> 12000, font |-> "ABCDEF+Times"]
GlyphsOf(s) == [j \in 1..Len(s) |-> Glyph(s[j])]

\* the same in a font of half the size
SmallGlyphsOf(s) == [j \in 1..Len(s) |-> [Glyph(s[j]) EXCEPT !.size = 6000]]

\* an unmapped character: one glyph whose text is "(cid:1)"
CidGlyph ==
    [text |-> <<"(", "c", "i", "d", ":", "1", ")">>, size |-> 12000,
     font |-> "ABCDEF+Times"]

Frags ==
    { GlyphsOf(<<EUR>>),
      GlyphsOf(<<" ">>),
      GlyphsOf(<<"5", ".", "0", "0", "0", ",", "0", "0">>),
      SmallGlyphsOf(<<"5", ",", "0", "0">>),
      GlyphsOf(<<"2", "0", "2", "4", ",", "0", "0">>),
      GlyphsOf(<<"1", ".", "2", "0", "2", ".", "0", "0", "0", ",", "0", "0">>),
      GlyphsOf(<<"0", "1", "-", "0", "1", "-", "2", "0", "2", "4">>),
      GlyphsOf(<<"0", "1", ".", "0", "1", ".", "2", "0", "2", "4">>),
      GlyphsOf(<<"x">>),
      <<CidGlyph>> }

RECURSIVE FragLines(_)
FragLines(n) ==
    IF n = 0 THEN {<<>>}
    ELSE LET shorter == FragLines(n - 1)
         IN  shorter \cup {f \o g : f \in Frags, g \in shorter}

\* a line of the source document, laid out from a fixed origin
InputLine(glyphs, row) ==
    [glyphs |-> glyphs, x |-> 72000, y |-> 700000 - 20000 * row, adv |-> 6000]

ScanLines == {InputLine(g, 1) : g \in FragLines(MaxFrags)}

(***************************************************************************)
(* Source documents                                                        *)
(***************************************************************************)
A4 == <<595000, 842000>>
Letter == <<612000, 792000>>

TextX == GlyphsOf(<<"x">>)
TextLeft == GlyphsOf(<<EUR, " ", "5", ".", "0", "0", "0", ",", "0", "0">>)
TextDate == GlyphsOf(<<"0", "1", "-", "0", "1", "-", "2", "0", "2", "4">>)
TextBoth == GlyphsOf(<<EUR, "5", ",", "0", "0", EUR>>)
TextYear == GlyphsOf(<<EUR, " ", "2", "0", "2", "4", ",", "0", "0">>)

\* the pages a source document is made of: a size and the texts of its lines
PageSamples ==
    { <<A4, <<>>>>,
      <<Letter, <<TextX>>>>,
      <<A4, <<TextLeft>>>>,
      <<Letter, <<TextDate, TextBoth>>>>,
      <<A4, <<TextYear>>>>,
      <<Letter, <<TextX, TextLeft>>>> }

SourcePage(id, size, texts) ==
    [id |-> id, w |-> size[1], h |-> size[2],
     lines |-> [r \in 1..Len(texts) |-> InputLine(texts[r], r)],
     merged |-> <<>>]

PageSeqs ==
    UNION {{[p \in 1..n |-> SourcePage(p, f[p][1], f[p][2])] :
               f \in [1..n -> PageSamples]} : n \in 0..MaxPages}

\* a well-formed file with its pages, or bytes no parser accepts
Docs == {[ok |-> TRUE, pages |-> ps] : ps \in PageSeqs}
            \cup {[ok |-> FALSE, pages |-> <<>>]}

(***************************************************************************)
(* Extraction: the hits of one page                                        *)
(***************************************************************************)
PageHits(page) ==
    Flatten([l \in 1..Len(page.lines) |-> LineHits(page.lines[l])])

EmptyDict == [j \in {} |-> <<>>]
DictGet(d, key) == IF key \in DOMAIN d THEN d[key] ELSE <<>>
DictPut(d, key, v) ==
    [j \in DOMAIN d \cup {key} |-> IF j = key THEN v ELSE d[j]]

(***************************************************************************)
(* Rendering: what is painted for one hit                                  *)
(***************************************************************************)
Pad(size) == Max(1200, (18 * size) \div 100)

\* pdfmetrics.getRegisteredFontNames()
RegisteredFontNames == {f.name : f \in registry}

\* pdfmetrics.registerFont: the entry of that name is (re)placed by the font
\* object just loaded, told apart by the invocation that loaded it
registerFont(reg, name, load) ==
    {f \in reg : f.name # name} \cup {[name |-> name, load |-> load]}

_ensure_font(family, style) ==
    IF "TimesNewRomanPS" \in RegisteredFontNames
    THEN "TimesNewRomanPS" ELSE "Times-Roman"

\* variant: the padding is added on the lower left only
RectOp_pad_lower_left(hit) ==
    LET pad == Pad(hit.size)
    IN  [op |-> "rect", x |-> hit.x0 - pad, y |-> hit.y0 - pad,
         w |-> (hit.x1 - hit.x0) + pad, h |-> (hit.y1 - hit.y0) + pad,
         size |-> 0, text |-> <<>>, font |-> ""]

RectOp(hit) ==
    LET pad == Pad(hit.size)
    IN  [op |-> "rect", x |-> hit.x0 - pad, y |-> hit.y0 - pad,
         w |-> (hit.x1 - hit.x0) + 2 * pad, h |-> (hit.y1 - hit.y0) + 2 * pad,
         size |-> 0, text |-> <<>>, font |-> ""]

\* variant: the text is centred in the blanked region
TextOp_centred(hit, amount, date) ==
    [op |-> "text",
     x |-> hit.x0 + ((hit.x1 - hit.x0)
                     - Len(NewText(hit, amount, date)) * (hit.size \div 2)) \div 2,
     y |-> hit.y0 + ((hit.y1 - hit.y0) * hit.k) \div 1000,
     w |-> 0, h |-> 0,
     size |-> hit.size, text |-> NewText(hit, amount, date),
     font |-> _ensure_font(hit.family, hit.style)]

TextOp(hit, amount, date) ==
    [op |-> "text", x |-> hit.x0,
     y |-> hit.y0 + ((hit.y1 - hit.y0) * hit.k) \div 1000,
     w |-> 0, h |-> 0,
     size |-> hit.size, text |-> NewText(hit, amount, date),
     font |-> _ensure_font(hit.family, hit.style)]

PaintHits(hits, amount, date) ==
    Flatten([n \in 1..Len(hits) |->
                <<RectOp(hits[n]), TextOp(hits[n], amount, date)>>])

(***************************************************************************)
(* Compositing.  merge_page appends the overlay's content stream to the    *)
(* page's own and keeps the page's boxes; the text the overlay draws is    *)
(* text of the merged page, each textOut one line of one glyph per         *)
(* character, its box hanging a descent below the text origin.             *)
(***************************************************************************)
TextOps(ops) == SelectSeq(ops, LAMBDA o : o.op = "text")

DrawnLine(o) ==
    [glyphs |-> [j \in 1..Len(o.text) |->
                    [text |-> <<o.text[j]>>, size |-> o.size,
                     font |-> o.font]],
     x |-> o.x, y |-> o.y - (216 * o.size) \div 1000, adv |-> o.size \div 2]

OverlayLines(ov) ==
    [n \in 1..Len(TextOps(ov.ops)) |-> DrawnLine(TextOps(ov.ops)[n])]

\* variant: the page box grows to hold the overlay page (expand=True)
merge_page_expand(page, ov) ==
    [page EXCEPT !.lines = @ \o OverlayLines(ov),
                 !.merged = Append(@, ov),
                 !.w = Max(@, ov.w),
                 !.h = Max(@, ov.h)]

merge_page(page, ov) ==
    [page EXCEPT !.lines = @ \o OverlayLines(ov),
                 !.merged = Append(@, ov)]

(***************************************************************************)
(* The engine, one action per straight-line stretch or loop iteration      *)
(***************************************************************************)
NoPrev == [matches |-> EmptyDict, out |-> <<>>]

\* the registry after the module was imported: the two PTMono faces
ImportedFonts ==
    {[name |-> "PTMono", load |-> 0], [name |-> "PTMono-Bold", load |-> 0]}

FontFiles == {"absent", "present", "corrupt"}
None == [open |-> FALSE, w |-> 0, h |-> 0]

\* the states at the call of the engine, for the given deployments
\* the four ConversationHandlers of main, in the order they are added
Convs == <<"both", "aml", "card", "notary">>

\* no conversation is open and nothing has been collected
BotOff ==
    /\ states = [h \in {Convs[j] : j \in 1..Len(Convs)} |-> "END"]
    /\ user_data = EmptyDict
    /\ mine = [h \in {Convs[j] : j \in 1..Len(Convs)} |-> EmptyDict]
    /\ replies = <<>>
    /\ built = <<>>
    /\ template = TRUE
    /\ menus = 0
    /\ last = <<>>

InitWith(fontfiles, envvalues, amounts) ==
    /\ doc \in Docs
    /\ new_amount_float \in amounts
    /\ current_date = <<>>
    /\ pc = "start"
    /\ pageno = 0
    /\ matches_by_page = EmptyDict
    /\ canv = None
    /\ overlay = <<>>
    /\ writer = <<>>
    /\ result = "none"
    /\ run = 1
    /\ prev = NoPrev
    /\ fontfile \in fontfiles
    /\ environ \in envvalues
    /\ registry = ImportedFonts
    /\ conv = "ASK_NOTARY_AMOUNT"
    /\ sent = <<>>
    /\ sline = InputLine(<<>>, 1)
    /\ shits = <<>>
    /\ stexts = <<>>
    /\ sops = <<>>
    /\ spc = "off"
    /\ BotOff

\* the engine as deployed by default: NOTARY_OVERLAY_PCT unset, the font
\* file missing or a loadable font
Init == InitWith({"absent", "present"}, {"unset"}, Amounts)

\* the engine under every deployment: any font file, any environment value
DeployInit == InitWith(FontFiles, EnvValues, {98000})

\* entry up to the extraction loop: the font file, when there is one, is
\* loaded and registered (TTFont raises on a file that is no font), then
\* the date is read once
Start ==
    /\ pc = "start"
    /\ IF fontfile = "corrupt"
       THEN /\ pc' = "failed"
            /\ result' = "TTFError"
            /\ UNCHANGED <<current_date, registry>>
       ELSE /\ registry' = IF fontfile = "present"
                           THEN registerFont(registry, "TimesNewRomanPS", run)
                           ELSE registry
            /\ \E today \in Todays : current_date' = now_nl_date(today)
            /\ pc' = "extract"
            /\ UNCHANGED result
    /\ matches_by_page' = EmptyDict
    /\ pageno' = 0
    /\ UNCHANGED <<doc, new_amount_float, canv, overlay, writer, run, prev>>
    /\ UNCHANGED <<fontfile, environ, conv, sent>>
    /\ UNCHANGED scanvars
    /\ UNCHANGED botvars

\* extract_pages raises on bytes that are not a document
ExtractFail ==
    /\ pc = "extract"
    /\ ~doc.ok
    /\ pc' = "failed"
    /\ result' = "PDFSyntaxError"
    /\ UNCHANGED <<doc, new_amount_float, current_date, pageno,
                   matches_by_page, canv, overlay, writer, run, prev>>
    /\ UNCHANGED hostvars
    /\ UNCHANGED scanvars
    /\ UNCHANGED botvars

\* one iteration of the loop over extract_pages
ExtractPage ==
    /\ pc = "extract"
    /\ doc.ok
    /\ pageno < Len(doc.pages)
    /\ LET page_hits == PageHits(doc.pages[pageno + 1])
       IN  IF page_hits # <<>> /\ FloatRaises
           THEN /\ pc' = "failed"
                /\ result' = "ValueError"
                /\ UNCHANGED <<matches_by_page, pageno>>
           ELSE /\ matches_by_page' =
                       IF page_hits # <<>>
                       THEN DictPut(matches_by_page, pageno, page_hits)
                       ELSE matches_by_page
                /\ pageno' = pageno + 1
                /\ UNCHANGED <<pc, result>>
    /\ UNCHANGED <<doc, new_amount_float, current_date, canv, overlay,
                   writer, run, prev>>
    /\ UNCHANGED hostvars
    /\ UNCHANGED scanvars
    /\ UNCHANGED botvars

\* the extraction loop ends; the reader and the overlay buffer are opened
OpenReader ==
    /\ pc = "extract"
    /\ doc.ok
    /\ pageno = Len(doc.pages)
    /\ canv' = None
    /\ overlay' = <<>>
    /\ pageno' = 0
    /\ pc' = "render"
    /\ UNCHANGED <<doc, new_amount_float, current_date, matches_by_page,
                   writer, result, run, prev>>
    /\ UNCHANGED hostvars
    /\ UNCHANGED scanvars
    /\ UNCHANGED botvars

\* variant: every page is painted with the hits of the first page
RenderPage_first_page_hits ==
    /\ pc = "render"
    /\ pageno < Len(doc.pages)
    /\ LET page == doc.pages[pageno + 1]
           c == IF pageno = 0
                THEN [open |-> TRUE, w |-> page.w, h |-> page.h]
                ELSE canv
           ops == PaintHits(DictGet(matches_by_page, 0),
                            new_amount_float, current_date)
       IN  /\ canv' = c
           /\ overlay' = Append(overlay, [w |-> c.w, h |-> c.h, ops |-> ops])
    /\ pageno' = pageno + 1
    /\ UNCHANGED <<doc, new_amount_float, current_date, pc, matches_by_page,
                   writer, result, run, prev>>
    /\ UNCHANGED hostvars
    /\ UNCHANGED scanvars
    /\ UNCHANGED botvars

\* variant: the date is read again for every page
RenderPage_fresh_date ==
    /\ pc = "render"
    /\ pageno < Len(doc.pages)
    /\ \E today \in Todays :
        LET page == doc.pages[pageno + 1]
            c == IF pageno = 0
                 THEN [open |-> TRUE, w |-> page.w, h |-> page.h]
                 ELSE canv
            ops == PaintHits(DictGet(matches_by_page, pageno),
                             new_amount_float, now_nl_date(today))
        IN  /\ canv' = c
            /\ overlay' = Append(overlay, [w |-> c.w, h |-> c.h, ops |-> ops])
    /\ pageno' = pageno + 1
    /\ UNCHANGED <<doc, new_amount_float, current_date, pc, matches_by_page,
                   writer, result, run, prev>>
    /\ UNCHANGED hostvars
    /\ UNCHANGED scanvars
    /\ UNCHANGED botvars

\* variant: showPage is called only for a page that has hits
RenderPage_skip_blank ==
    /\ pc = "render"
    /\ pageno < Len(doc.pages)
    /\ LET page == doc.pages[pageno + 1]
           c == IF pageno = 0
                THEN [open |-> TRUE, w |-> page.w, h |-> page.h]
                ELSE canv
           ops == PaintHits(DictGet(matches_by_page, pageno),
                            new_amount_float, current_date)
       IN  /\ canv' = c
           /\ overlay' = IF ops = <<>> THEN overlay
                         ELSE Append(overlay, [w |-> c.w, h |-> c.h, ops |-> ops])
    /\ pageno' = pageno + 1
    /\ UNCHANGED <<doc, new_amount_float, current_date, pc, matches_by_page,
                   writer, result, run, prev>>
    /\ UNCHANGED hostvars
    /\ UNCHANGED scanvars
    /\ UNCHANGED botvars

\* one iteration of the render loop, closed by showPage
RenderPage ==
    /\ pc = "render"
    /\ pageno < Len(doc.pages)
    /\ LET page == doc.pages[pageno + 1]
           c == IF pageno = 0
                THEN [open |-> TRUE, w |-> page.w, h |-> page.h]
                ELSE canv
           ops == PaintHits(DictGet(matches_by_page, pageno),
                            new_amount_float, current_date)
       IN  /\ canv' = c
           /\ overlay' = Append(overlay, [w |-> c.w, h |-> c.h, ops |-> ops])
    /\ pageno' = pageno + 1
    /\ UNCHANGED <<doc, new_amount_float, current_date, pc, matches_by_page,
                   writer, result, run, prev>>
    /\ UNCHANGED hostvars
    /\ UNCHANGED scanvars
    /\ UNCHANGED botvars

\* variant: the canvas exists before the loop, so saving never raises
SaveOverlay_always_open ==
    /\ pc = "render"
    /\ pageno = Len(doc.pages)
    /\ pc' = "merge"
    /\ pageno' = 0
    /\ writer' = <<>>
    /\ UNCHANGED result
    /\ UNCHANGED <<doc, new_amount_float, current_date, matches_by_page,
                   canv, overlay, run, prev>>
    /\ UNCHANGED hostvars
    /\ UNCHANGED scanvars
    /\ UNCHANGED botvars

\* variant: a document without any match is refused
SaveOverlay_no_match_raises ==
    /\ pc = "render"
    /\ pageno = Len(doc.pages)
    /\ IF canv = None \/ matches_by_page = EmptyDict
       THEN /\ pc' = "failed"
            /\ result' = IF canv = None THEN "AttributeError" ELSE "ValueError"
            /\ UNCHANGED <<pageno, writer>>
       ELSE /\ pc' = "merge"
            /\ pageno' = 0
            /\ writer' = <<>>
            /\ UNCHANGED result
    /\ UNCHANGED <<doc, new_amount_float, current_date, matches_by_page,
                   canv, overlay, run, prev>>
    /\ UNCHANGED hostvars
    /\ UNCHANGED scanvars
    /\ UNCHANGED botvars

\* canv.save() and the reopening of the overlay
SaveOverlay ==
    /\ pc = "render"
    /\ pageno = Len(doc.pages)
    /\ IF canv = None
       THEN /\ pc' = "failed"
            /\ result' = "AttributeError"
            /\ UNCHANGED <<pageno, writer>>
       ELSE /\ pc' = "merge"
            /\ pageno' = 0
            /\ writer' = <<>>
            /\ UNCHANGED result
    /\ UNCHANGED <<doc, new_amount_float, current_date, matches_by_page,
                   canv, overlay, run, prev>>
    /\ UNCHANGED hostvars
    /\ UNCHANGED scanvars
    /\ UNCHANGED botvars

\* variant: every page is merged with the first overlay page
MergePage_first_overlay ==
    /\ pc = "merge"
    /\ pageno < Len(doc.pages)
    /\ LET page == doc.pages[pageno + 1]
           merged == IF pageno < Len(overlay)
                     THEN merge_page(page, overlay[1])
                     ELSE page
       IN  writer' = Append(writer, merged)
    /\ pageno' = pageno + 1
    /\ UNCHANGED <<doc, new_amount_float, current_date, pc, matches_by_page,
                   canv, overlay, result, run, prev>>
    /\ UNCHANGED hostvars
    /\ UNCHANGED scanvars
    /\ UNCHANGED botvars

\* one iteration of the compositing loop
MergePage ==
    /\ pc = "merge"
    /\ pageno < Len(doc.pages)
    /\ LET page == doc.pages[pageno + 1]
           merged == IF pageno < Len(overlay)
                     THEN merge_page(page, overlay[pageno + 1])
                     ELSE page
       IN  writer' = Append(writer, merged)
    /\ pageno' = pageno + 1
    /\ UNCHANGED <<doc, new_amount_float, current_date, pc, matches_by_page,
                   canv, overlay, result, run, prev>>
    /\ UNCHANGED hostvars
    /\ UNCHANGED scanvars
    /\ UNCHANGED botvars

\* writer.write(out); return out.read()
WriteOut ==
    /\ pc = "merge"
    /\ pageno = Len(doc.pages)
    /\ result' = "bytes"
    /\ pc' = "done"
    /\ UNCHANGED <<doc, new_amount_float, current_date, pageno,
                   matches_by_page, canv, overlay, writer, run, prev>>
    /\ UNCHANGED hostvars
    /\ UNCHANGED scanvars
    /\ UNCHANGED botvars

\* notary_amount after the call of the engine: the except branch, or the
\* document reply
\* variant: after the failure message the template itself is sent
NotaryReply_sends_template ==
    /\ conv = "ASK_NOTARY_AMOUNT"
    /\ pc \in {"done", "failed"}
    /\ sent' = IF pc = "failed"
               THEN sent \o <<[kind |-> "text", body |-> "pdf_error"],
                               [kind |-> "document", body |-> "pdf_bytes"]>>
               ELSE Append(sent, [kind |-> "document", body |-> "pdf_bytes"])
    /\ conv' = "END"
    /\ UNCHANGED <<doc, new_amount_float, current_date, pc, pageno,
                   matches_by_page, canv, overlay, writer, result, run, prev>>
    /\ UNCHANGED <<fontfile, environ, registry>>
    /\ UNCHANGED scanvars
    /\ UNCHANGED botvars

NotaryReply ==
    /\ conv = "ASK_NOTARY_AMOUNT"
    /\ pc \in {"done", "failed"}
    /\ sent' = IF pc = "failed"
               THEN Append(sent, [kind |-> "text", body |-> "pdf_error"])
               ELSE Append(sent, [kind |-> "document", body |-> "pdf_bytes"])
    /\ conv' = "END"
    /\ UNCHANGED <<doc, new_amount_float, current_date, pc, pageno,
                   matches_by_page, canv, overlay, writer, result, run, prev>>
    /\ UNCHANGED <<fontfile, environ, registry>>
    /\ UNCHANGED scanvars
    /\ UNCHANGED botvars

\* a further request: the engine is called again, with the same amount, on
\* what it returned
Reapply ==
    /\ pc = "done"
    /\ conv = "END"
    /\ run < MaxRuns
    /\ conv' = "ASK_NOTARY_AMOUNT"
    /\ sent' = <<>>
    /\ UNCHANGED <<fontfile, environ, registry>>
    /\ doc' = [ok |-> TRUE, pages |-> writer]
    /\ prev' = [matches |-> matches_by_page, out |-> writer]
    /\ run' = run + 1
    /\ pc' = "start"
    /\ pageno' = 0
    /\ matches_by_page' = EmptyDict
    /\ canv' = None
    /\ overlay' = <<>>
    /\ writer' = <<>>
    /\ result' = "none"
    /\ UNCHANGED <<new_amount_float, current_date>>
    /\ UNCHANGED scanvars
    /\ UNCHANGED botvars

Next ==
    \/ Start
    \/ ExtractFail
    \/ ExtractPage
    \/ OpenReader
    \/ RenderPage
    \/ SaveOverlay
    \/ MergePage
    \/ WriteOut
    \/ NotaryReply
    \/ Reapply

Spec == Init /\ [][Next]_vars

SpecDeploy == DeployInit /\ [][Next]_vars

(***************************************************************************)
(* Line-level specification: one line is scanned, then its hits are given  *)
(* their replacement text                                                  *)
(***************************************************************************)
ScanInitWith(lines, amounts, todays) ==
    /\ sline \in lines
    /\ shits = <<>>
    /\ stexts = <<>>
    /\ spc = "scan"
    /\ new_amount_float \in amounts
    /\ current_date \in {now_nl_date(t) : t \in todays}
    /\ doc = [ok |-> TRUE, pages |-> <<>>]
    /\ pc = "off"
    /\ pageno = 0
    /\ matches_by_page = EmptyDict
    /\ canv = None
    /\ overlay = <<>>
    /\ writer = <<>>
    /\ result = "none"
    /\ run = 1
    /\ prev = NoPrev
    /\ fontfile = "absent"
    /\ environ = "unset"
    /\ registry = ImportedFonts
    /\ conv = "END"
    /\ sent = <<>>
    /\ sops = <<>>
    /\ BotOff

ScanInit == ScanInitWith(ScanLines, Amounts, Todays)

ScanLine ==
    /\ spc = "scan"
    /\ shits' = LineHits(sline)
    /\ spc' = "paint"
    /\ UNCHANGED <<sline, stexts, sops, new_amount_float, current_date>>
    /\ UNCHANGED pipevars
    /\ UNCHANGED botvars

PaintLine ==
    /\ spc = "paint"
    /\ stexts' = [n \in 1..Len(shits) |->
                    NewText(shits[n], new_amount_float, current_date)]
    /\ sops' = PaintHits(shits, new_amount_float, current_date)
    /\ spc' = "done"
    /\ UNCHANGED <<sline, shits, new_amount_float, current_date>>
    /\ UNCHANGED pipevars
    /\ UNCHANGED botvars

ScanNext == ScanLine \/ PaintLine

SpecScan == ScanInit /\ [][ScanNext]_vars

(***************************************************************************)
(* Fonts: a line with an amount and a date, each set in a font of its own  *)
(***************************************************************************)
UpperLetters ==
    {"A", "B", "C", "D", "E", "F", "G", "H", "I", "J", "K", "L", "M",
     "N", "O", "P", "Q", "R", "S", "T", "U", "V", "W", "X", "Y", "Z"}

\* re.sub(r"^[A-Z]{6}\+", "", fn), the font name as a sequence of characters
_strip_subset(fn) ==
    IF /\ Len(fn) >= 7
       /\ \A j \in 1..6 : fn[j] \in UpperLetters
       /\ fn[7] = "+"
    THEN SubSeq(fn, 8, Len(fn))
    ELSE fn

TimesRoman == <<"T", "i", "m", "e", "s", "-", "R", "o", "m", "a", "n">>
ArialBold == <<"A", "r", "i", "a", "l", "-", "B", "o", "l", "d">>

FontNames ==
    { <<"A", "B", "C", "D", "E", "F", "+">> \o TimesRoman,
      <<"G", "H", "I", "J", "K", "L", "+">> \o TimesRoman,
      <<"A", "B", "C", "D", "E", "F", "+">> \o ArialBold,
      ArialBold }

FontGlyphsOf(s, fontname) ==
    [j \in 1..Len(s) |-> [Glyph(s[j]) EXCEPT !.font = fontname]]

FontLines ==
    { InputLine(FontGlyphsOf(<<EUR, "5", ",", "0", "0", " ">>, f1)
                \o FontGlyphsOf(<<"0", "1", "-", "0", "1", "-",
                                  "2", "0", "2", "4">>, f2), 1) :
        f1 \in FontNames, f2 \in FontNames }

FontInit == ScanInitWith(FontLines, Amounts, Todays)

SpecFont == FontInit /\ [][ScanNext]_vars

(***************************************************************************)
(* Round trip: a line with one amount is scanned and painted, then the     *)
(* text that was drawn is scanned as a line of its own                     *)
(***************************************************************************)
RoundAmounts ==
    {100 * units + cents :
        units \in {0, 7, 202, 980, 1202, 7500, 20245, 999999, 1000000, 1202000},
        cents \in {0, 5, 50}}

RoundLines ==
    { InputLine(GlyphsOf(<<EUR, " ", "1", ",", "0", "0">>), 1),
      InputLine(GlyphsOf(<<"1", ",", "0", "0", " ", EUR>>), 1) }

RoundInit == ScanInitWith(RoundLines, RoundAmounts, {[d |-> 2, m |-> 11, y |-> 2026]})

\* extraction of the text the overlay drew for the first hit
Rescan ==
    /\ spc = "done"
    /\ sops # <<>>
    /\ sline' = DrawnLine(sops[2])
    /\ shits' = LineHits(DrawnLine(sops[2]))
    /\ spc' = "rescanned"
    /\ UNCHANGED <<stexts, sops, new_amount_float, current_date>>
    /\ UNCHANGED pipevars
    /\ UNCHANGED botvars

RoundNext == ScanLine \/ PaintLine \/ Rescan

SpecRound == RoundInit /\ [][RoundNext]_vars

(***************************************************************************)
(* Reading a formatted amount back, for the statements below               *)
(***************************************************************************)
DigitVal(c) == CHOOSE d \in 0..9 : DigitChar(d) = c

\* value of a digit string in which grouping dots are skipped
RECURSIVE NumValue(_)
NumValue(s) ==
    IF s = <<>> THEN 0
    ELSE LET front == SubSeq(s, 1, Len(s) - 1)
             c == s[Len(s)]
         IN  IF c = "." THEN NumValue(front) ELSE 10 * NumValue(front) + DigitVal(c)

\* body is cents written with a dot between groups of three digits of the
\* integer part, a decimal comma and exactly two decimals
IsDutchAmount(body, cents) ==
    /\ Len(body) >= 4
    /\ body[Len(body) - 2] = ","
    /\ IsDigit(body[Len(body) - 1])
    /\ IsDigit(body[Len(body)])
    /\ LET ip == SubSeq(body, 1, Len(body) - 3)
       IN  /\ \A p \in 1..Len(ip) :
                  IF (Len(ip) - p + 1) % 4 = 0 THEN ip[p] = "." ELSE IsDigit(ip[p])
           /\ ip[1] # "."
           /\ (ip[1] = "0" => Len(ip) = 1)
           /\ 100 * NumValue(ip) + NumValue(SubSeq(body, Len(body) - 1, Len(body)))
                  = cents

\* s is a date written DD-MM-YYYY
IsDashDate(s, today) ==
    /\ Len(s) = 10
    /\ s[3] = "-"
    /\ s[6] = "-"
    /\ \A p \in {1, 2, 4, 5, 7, 8, 9, 10} : IsDigit(s[p])
    /\ NumValue(SubSeq(s, 1, 2)) = today.d
    /\ NumValue(SubSeq(s, 4, 5)) = today.m
    /\ NumValue(SubSeq(s, 7, 10)) = today.y

Last(s) == s[Len(s)]
Overlaps(h1, h2) == h1.a < h2.b /\ h2.a < h1.b
ScanText == Txt(sline)

(***************************************************************************)
(* C1: for an input with at least one page the call does not fail, and its *)
(* output has as many pages as the input, page i of the output having the  *)
(* width and height of page i of the input, whatever hits were found.      *)
(***************************************************************************)
C1_SamePagesAndSizes ==
    (doc.ok /\ Len(doc.pages) >= 1) =>
        /\ pc # "failed"
        /\ pc = "done" =>
              /\ Len(writer) = Len(doc.pages)
              /\ \A i \in 1..Len(doc.pages) :
                     writer[i].w = doc.pages[i].w /\ writer[i].h = doc.pages[i].h

\* a finished two-page run with hits, whose pages differ in size
C1_Witness ==
    /\ pc = "done"
    /\ Len(doc.pages) = 2
    /\ doc.pages[1].w # doc.pages[2].w
    /\ doc.pages[1].h # doc.pages[2].h
    /\ matches_by_page # EmptyDict

(***************************************************************************)
(* C2: the replacement text of every amount hit is the new amount written  *)
(* with grouping dot, decimal comma and two decimals, the euro sign on the *)
(* side it has in the matched text: "EUR 5.000,00" with 7500.50 gives      *)
(* "EUR 7.500,50", "5.000,00 EUR" with 980 gives "980,00 EUR".             *)
(***************************************************************************)
C2_AmountStyleKept ==
    spc = "done" =>
        /\ \A n \in 1..Len(shits) :
               shits[n].kind = "amount" =>
                   LET t == stexts[n]
                   IN  IF shits[n].pat = "money_left"
                       THEN /\ Len(t) > 2
                            /\ t[1] = EUR
                            /\ t[2] = " "
                            /\ IsDutchAmount(SubSeq(t, 3, Len(t)), new_amount_float)
                       ELSE /\ Len(t) > 2
                            /\ t[Len(t)] = EUR
                            /\ t[Len(t) - 1] = " "
                            /\ IsDutchAmount(SubSeq(t, 1, Len(t) - 2), new_amount_float)
        /\ (/\ ScanText = <<EUR, " ", "5", ".", "0", "0", "0", ",", "0", "0">>
            /\ new_amount_float = 750050)
               => stexts = <<(<<EUR, " ", "7", ".", "5", "0", "0", ",", "5", "0">>)>>
        /\ (/\ ScanText = <<"5", ".", "0", "0", "0", ",", "0", "0", " ", EUR>>
            /\ new_amount_float = 98000)
               => stexts = <<(<<"9", "8", "0", ",", "0", "0", " ", EUR>>)>>

\* a painted line with a symbol-left and a symbol-right amount hit
C2_Witness ==
    /\ spc = "done"
    /\ \E n \in 1..Len(shits) : shits[n].pat = "money_left"
    /\ \E n \in 1..Len(shits) : shits[n].pat = "money_right"
    /\ new_amount_float = 750050

(***************************************************************************)
(* C3: the replacement text of every date hit, matched by the dash or by   *)
(* the dot pattern, is the current date written DD-MM-YYYY; the matched    *)
(* text does not influence it.                                             *)
(***************************************************************************)
C3_DateIsToday ==
    spc = "done" =>
        \A n \in 1..Len(shits) :
            shits[n].kind = "date" =>
                /\ stexts[n] = current_date
                /\ \E today \in Todays : IsDashDate(stexts[n], today)

\* a painted line with a dash date and a dot date, neither being today
C3_Witness ==
    /\ spc = "done"
    /\ \E n \in 1..Len(shits) :
           shits[n].pat = "date_pat" /\ shits[n].src # current_date
    /\ \E n \in 1..Len(shits) : shits[n].pat = "date_pat_dots"

(***************************************************************************)
(* C4: an amount candidate is discarded when its text contains "202" and   *)
(* is shorter than 12 characters, and is a hit otherwise; date candidates  *)
(* are never discarded by this rule.                                       *)
(***************************************************************************)
IsHit(pat, m) ==
    \E n \in 1..Len(shits) :
        shits[n].pat = pat /\ shits[n].a = m.a /\ shits[n].b = m.b

Candidates(pat) ==
    LET ms == FindIter(pat, ScanText) IN {ms[n] : n \in 1..Len(ms)}

C4_YearRuleOnly ==
    spc \in {"paint", "done"} =>
        /\ \A pat \in {"money_left", "money_right"} : \A m \in Candidates(pat) :
               IsHit(pat, m) <=> ~SkipAsYear(Group(ScanText, m.a, m.b))
        /\ \A pat \in {"date_pat", "date_pat_dots"} : \A m \in Candidates(pat) :
               IsHit(pat, m)

(***************************************************************************)
(* C5: on one line no two hits have overlapping character spans.           *)
(***************************************************************************)
C5_NoOverlap ==
    spc \in {"paint", "done"} =>
        \A n, m \in 1..Len(shits) : n # m => ~Overlaps(shits[n], shits[m])

(***************************************************************************)
(* C6: on a zero-page input, and on bytes that are no document, the call   *)
(* ends by raising and returns no output.                                  *)
(***************************************************************************)
C6_NoPagesFails ==
    (~doc.ok \/ Len(doc.pages) = 0) =>
        /\ pc # "done"
        /\ result # "bytes"
        /\ writer = <<>>
        /\ pc = "failed" => result \in {"PDFSyntaxError", "AttributeError"}

\* the call on a well-formed file without pages has raised
C6_Witness ==
    /\ pc = "failed"
    /\ doc.ok
    /\ Len(doc.pages) = 0
    /\ result = "AttributeError"

(***************************************************************************)
(* C7: when no token is found on any page of a document with at least one  *)
(* page the call does not fail, and every output page is the original page *)
(* merged with an overlay on which nothing is drawn.                       *)
(***************************************************************************)
C7_NoMatchIsNoFailure ==
    (doc.ok /\ Len(doc.pages) >= 1 /\ matches_by_page = EmptyDict) =>
        /\ pc # "failed"
        /\ pc = "done" =>
              /\ result = "bytes"
              /\ Len(writer) = Len(doc.pages)
              /\ \A i \in 1..Len(writer) :
                     /\ Len(writer[i].merged) = Len(doc.pages[i].merged) + 1
                     /\ Last(writer[i].merged).ops = <<>>
                     /\ writer[i].lines = doc.pages[i].lines

\* a finished run over two pages, one with a discarded candidate, no hit
C7_Witness ==
    /\ pc = "done"
    /\ Len(doc.pages) = 2
    /\ matches_by_page = EmptyDict
    /\ \E i \in 1..2 : doc.pages[i].lines # <<>>

(***************************************************************************)
(* C8: the output lists the pages in the original order, and output page i *)
(* is original page i with overlay page i on top: none is merged with the  *)
(* overlay of another index, reordered, duplicated or dropped.             *)
(***************************************************************************)
C8_PageOrderKept ==
    pc \in {"merge", "done"} =>
        /\ Len(writer) <= Len(doc.pages)
        /\ pc = "done" => Len(writer) = Len(doc.pages)
        /\ \A i \in 1..Len(writer) :
               /\ writer[i].id = doc.pages[i].id
               /\ SubSeq(writer[i].lines, 1, Len(doc.pages[i].lines))
                      = doc.pages[i].lines
               /\ Len(writer[i].merged) = Len(doc.pages[i].merged) + 1
               /\ SubSeq(writer[i].merged, 1, Len(doc.pages[i].merged))
                      = doc.pages[i].merged
               /\ Last(writer[i].merged).ops
                      = PaintHits(DictGet(matches_by_page, i - 1),
                                  new_amount_float, current_date)

\* a finished two-page run whose two overlay pages differ
C8_Witness ==
    /\ pc = "done"
    /\ Len(writer) = 2
    /\ overlay[1].ops # overlay[2].ops
    /\ overlay[1].ops # <<>>
    /\ overlay[2].ops # <<>>

(***************************************************************************)
(* C9: the renderer closes exactly one overlay page per source page, a     *)
(* blank one for a page without hits, so the overlay has as many pages as  *)
(* the source and every source page is merged with an overlay.             *)
(***************************************************************************)
C9_OneOverlayPerPage ==
    /\ pc = "render" => Len(overlay) = pageno
    /\ pc \in {"merge", "done"} =>
          /\ Len(overlay) = Len(doc.pages)
          /\ \A i \in 1..Len(overlay) :
                 (i - 1) \notin DOMAIN matches_by_page => overlay[i].ops = <<>>
          /\ \A i \in 1..Len(writer) :
                 Len(writer[i].merged) = Len(doc.pages[i].merged) + 1

\* a finished run with a page that has hits and a page that has none
C9_Witness ==
    /\ pc = "done"
    /\ Len(doc.pages) = 2
    /\ \E i \in 0..1 : i \in DOMAIN matches_by_page
    /\ \E i \in 0..1 : i \notin DOMAIN matches_by_page

(***************************************************************************)
(* C10: the engine run with the same amount on its own output finds the    *)
(* hits of the previous run, no other, and draws what the previous run     *)
(* drew.                                                                   *)
(***************************************************************************)
C10_Idempotent ==
    (run = 2 /\ pc = "done") =>
        \A i \in 1..Len(doc.pages) :
            /\ DictGet(matches_by_page, i - 1) = DictGet(prev.matches, i - 1)
            /\ overlay[i].ops = Last(prev.out[i].merged).ops

(***************************************************************************)
(* What of a list of painting operations stays visible: a string is hidden *)
(* when a rectangle painted after it meets the box of its glyphs           *)
(***************************************************************************)
TextBox(o) ==
    [x0 |-> o.x, x1 |-> o.x + Len(o.text) * (o.size \div 2),
     y0 |-> o.y - (216 * o.size) \div 1000,
     y1 |-> o.y - (216 * o.size) \div 1000 + o.size]

RectMeets(r, t) ==
    /\ r.x < t.x1 /\ t.x0 < r.x + r.w
    /\ r.y < t.y1 /\ t.y0 < r.y + r.h

Shown(ops) ==
    {[text |-> ops[j].text, x |-> ops[j].x, y |-> ops[j].y,
      hidden |-> \E l \in (j + 1)..Len(ops) :
                     ops[l].op = "rect" /\ RectMeets(ops[l], TextBox(ops[j]))] :
        j \in {q \in 1..Len(ops) : ops[q].op = "text"}}

Reordered(hits, f) == [j \in 1..Len(hits) |-> hits[f[j]]]

\* the cents a formatted amount reads back as
ReadBack(text) == NumValue(SelectSeq(text, IsDigit))

(***************************************************************************)
(* C11: the hits of a page do not interact: whatever the order in which    *)
(* they are painted, the same replacement texts stay visible (no hit's     *)
(* rectangle blanks the text of another hit).                              *)
(***************************************************************************)
C11_PaintOrderFree ==
    pc \in {"merge", "done"} =>
        \A i \in DOMAIN matches_by_page :
            \A f \in Permutations(1..Len(matches_by_page[i])) :
                Shown(PaintHits(Reordered(matches_by_page[i], f),
                                new_amount_float, current_date))
                    = Shown(PaintHits(matches_by_page[i],
                                      new_amount_float, current_date))

(***************************************************************************)
(* C12: an amount written by the formatter, with the euro sign on either   *)
(* side, is matched in full by the amount matcher, is accepted as a hit    *)
(* and reads back as the amount.                                           *)
(***************************************************************************)
C12_FormatRoundTrip ==
    spc = "rescanned" =>
        \E n \in 1..Len(shits) :
            /\ shits[n].kind = "amount"
            /\ shits[n].a = 0
            /\ shits[n].b = Len(Txt(sline))
            /\ ReadBack(shits[n].src) = new_amount_float

(***************************************************************************)
(* C13: within one invocation every amount hit of every page is replaced   *)
(* by the same new amount and every date hit by the same date string, the  *)
(* one read at the start of the invocation.                                *)
(***************************************************************************)
C13_UniformPolicy ==
    pc \in {"render", "merge", "done"} =>
        \A i \in 1..Len(overlay) :
            LET hits == DictGet(matches_by_page, i - 1)
            IN  /\ Len(overlay[i].ops) = 2 * Len(hits)
                /\ \A n \in 1..Len(hits) :
                       LET o == overlay[i].ops[2 * n]
                       IN  /\ o.op = "text"
                           /\ hits[n].kind = "amount" =>
                                  ReadBack(o.text) = new_amount_float
                           /\ hits[n].kind = "date" => o.text = current_date

\* a finished run with amount hits on one page and a date hit on the other
C13_Witness ==
    /\ pc = "done"
    /\ Len(doc.pages) = 2
    /\ \E n \in 1..Len(DictGet(matches_by_page, 0)) :
           matches_by_page[0][n].kind = "amount"
    /\ \E n \in 1..Len(DictGet(matches_by_page, 1)) :
           matches_by_page[1][n].kind = "date"
    /\ \E n \in 1..Len(DictGet(matches_by_page, 1)) :
           matches_by_page[1][n].kind = "amount"

(***************************************************************************)
(* C14: font resolution never fails the operation: without a loadable      *)
(* preferred font the text is set in the built-in serif font and output is *)
(* still returned; no font load failure reaches the caller.                *)
(***************************************************************************)
C14_FontNeverFatal ==
    /\ result # "TTFError"
    /\ (fontfile # "present" /\ pc \in {"render", "merge", "done"}) =>
           \A i \in 1..Len(overlay) :
               \A j \in 1..Len(overlay[i].ops) :
                   overlay[i].ops[j].op = "text" =>
                       overlay[i].ops[j].font = "Times-Roman"

(***************************************************************************)
(* C15: when the engine raises, notary_amount sends exactly one generic    *)
(* failure message and no document, and the conversation ends.             *)
(***************************************************************************)
C15_OneFailureMessage ==
    pc = "failed" =>
        IF conv = "END"
        THEN sent = <<[kind |-> "text", body |-> "pdf_error"]>>
        ELSE sent = <<>>

C15_Witness ==
    /\ pc = "failed"
    /\ conv = "END"
    /\ result = "AttributeError"
    /\ Len(sent) = 1

(***************************************************************************)
(* C17: the font registry is initialised once and read-only afterwards:    *)
(* no invocation after the first one writes to it.                         *)
(***************************************************************************)
C17_RegistryWrittenOnce == [][run > 1 => registry' = registry]_vars

(***************************************************************************)
(* C18: for every value of the anchor-ratio setting, the ratio kept in a   *)
(* hit lies in [0,1] and the text origin's y lies within the hit's box.    *)
(***************************************************************************)
C18_AnchorInUnitRange ==
    \A i \in DOMAIN matches_by_page :
        \A n \in 1..Len(matches_by_page[i]) :
            LET h == matches_by_page[i][n]
                y == TextOp(h, new_amount_float, current_date).y
            IN  /\ 0 <= h.k /\ h.k <= 1000
                /\ h.y0 <= y /\ y <= h.y1

\* the texts of the glyphs chars[a:b] selects, joined
SegText(line, a, b) ==
    LET lo == a + 1
        hi == Min(b, Len(Chars(line)))
    IN  Flatten([j \in 1..(hi - lo + 1) |-> Chars(line)[lo + j - 1].text])

(***************************************************************************)
(* C19: the glyphs taken for a hit are exactly those whose characters make *)
(* up the matched text: their texts, joined, give the matched string, also *)
(* on a line with a glyph whose text is longer than one character.         *)
(***************************************************************************)
C19_SegIsMatchedText ==
    \A n \in 1..Len(shits) :
        SegText(sline, shits[n].a, shits[n].b) = shits[n].src

(***************************************************************************)
(* C20: the blanking rectangle of a hit of size s runs from                *)
(* (x0 - p, y0 - p) to (x1 + p, y1 + p) with p = max(1.2, 0.18 s), where   *)
(* x0, y0, x1, y1 are the extremes of the hit's glyphs; it strictly        *)
(* contains every one of those glyph boxes, and x0 <= x1, y0 <= y1.        *)
(***************************************************************************)
C20_RectPadsBox ==
    spc = "done" =>
        /\ Len(sops) = 2 * Len(shits)
        /\ \A n \in 1..Len(shits) :
               LET h == shits[n]
                   r == sops[2 * n - 1]
                   p == IF 100 * 1200 >= 18 * h.size
                        THEN 1200 ELSE (18 * h.size) \div 100
                   seg == Seg(sline, h.a, h.b)
               IN  /\ r.op = "rect"
                   /\ r.x = h.x0 - p /\ r.y = h.y0 - p
                   /\ r.x + r.w = h.x1 + p /\ r.y + r.h = h.y1 + p
                   /\ h.x0 <= h.x1 /\ h.y0 <= h.y1
                   /\ \A j \in seg :
                          /\ h.x0 <= GlyphX0(sline, j) /\ GlyphX1(sline, j) <= h.x1
                          /\ h.y0 <= GlyphY0(sline, j) /\ GlyphY1(sline, j) <= h.y1
                          /\ r.x < GlyphX0(sline, j)
                          /\ GlyphX1(sline, j) < r.x + r.w
                          /\ r.y < GlyphY0(sline, j)
                          /\ GlyphY1(sline, j) < r.y + r.h
                   /\ \E j \in seg : h.x0 = GlyphX0(sline, j)
                   /\ \E j \in seg : h.x1 = GlyphX1(sline, j)
                   /\ \E j \in seg : h.y1 = GlyphY1(sline, j)

\* a painted line with a hit small enough for the 1.2 floor and a hit above it
C20_Witness ==
    /\ spc = "done"
    /\ \E n \in 1..Len(shits) : 18 * shits[n].size < 100 * 1200
    /\ \E n \in 1..Len(shits) : 18 * shits[n].size > 100 * 1200

C22_OverlaySizedToPage ==
    pc \in {"render", "merge", "done"} =>
        \A i \in 1..Len(overlay) :
            /\ overlay[i].w = doc.pages[i].w
            /\ overlay[i].h = doc.pages[i].h

\* the font name of the first glyph of a hit
FirstFont(line, hit) == Chars(line)[SetMin(Seg(line, hit.a, hit.b))].font

(***************************************************************************)
(* C23: family and style of a hit come from the font name of its first     *)
(* glyph with the subset prefix removed: hits whose stripped names are the *)
(* same get the same family and style, hits whose stripped names differ    *)
(* (Times-Roman against Arial-Bold in the sample) do not.                  *)
(***************************************************************************)
C23_FamilyFromFontName ==
    \A n \in 1..Len(shits) : \A m \in 1..Len(shits) :
        (_strip_subset(FirstFont(sline, shits[n]))
            = _strip_subset(FirstFont(sline, shits[m])))
        <=> (<<shits[n].family, shits[n].style>>
                = <<shits[m].family, shits[m].style>>)

\* how many operations of a kind a list holds
CountOps(ops, kind) == Len(SelectSeq(ops, LAMBDA o : o.op = kind))

(***************************************************************************)
(* C24: when a run is done, the hits found on page i are painted once each *)
(* on overlay page i                                                       *)
(* and nowhere else: overlay i holds as many rectangles, and as many       *)
(* strings, as page i has hits, and they are those of its hits.            *)
(***************************************************************************)
C24_HitsPaintedOnOwnPage ==
    pc = "done" =>
        \A i \in 1..Len(doc.pages) :
            LET hits == PageHits(doc.pages[i])
            IN  /\ CountOps(overlay[i].ops, "rect") = Len(hits)
                /\ CountOps(overlay[i].ops, "text") = Len(hits)
                /\ \A n \in 1..Len(hits) :
                       LET r == overlay[i].ops[2 * n - 1]
                           t == overlay[i].ops[2 * n]
                       IN  /\ r.op = "rect" /\ t.op = "text"
                           /\ r.x < hits[n].x0 /\ hits[n].x1 < r.x + r.w
                           /\ r.y < hits[n].y0 /\ hits[n].y1 < r.y + r.h
                           /\ t.x = hits[n].x0

\* a finished run over two pages with different numbers of hits, both painted
C24_Witness ==
    /\ pc = "done"
    /\ Len(doc.pages) = 2
    /\ Len(PageHits(doc.pages[1])) > 0
    /\ Len(PageHits(doc.pages[2])) > Len(PageHits(doc.pages[1]))

(***************************************************************************)
(* The conversations: numbers as the handlers parse them.  A number is its *)
(* sign, its integer part and the digits after the point (without closing  *)
(* zeros), or not-a-number.                                                *)
(***************************************************************************)
Has(s, c) == \E j \in 1..Len(s) : s[j] = c
Remove(s, cs) == SelectSeq(s, LAMBDA c : c \notin cs)
Replace(s, from, to) == [j \in 1..Len(s) |-> IF s[j] = from THEN to ELSE s[j]]
Upper(s) ==
    [j \in 1..Len(s) |->
        CASE s[j] = "n" -> "N" [] s[j] = "a" -> "A" [] s[j] = "x" -> "X"
          [] OTHER -> s[j]]

\* "1.200,50" becomes "1200.50" and "4,40" becomes "4.40"
DecimalPoint(t) ==
    IF Has(t, ",") /\ Has(t, ".") THEN Replace(Remove(t, {"."}), ",", ".")
    ELSE IF Has(t, ",") THEN Replace(t, ",", ".")
    ELSE t

RECURSIVE StripZeros(_)
StripZeros(ds) ==
    IF ds # <<>> /\ ds[Len(ds)] = "0"
    THEN StripZeros(SubSeq(ds, 1, Len(ds) - 1)) ELSE ds

Raised == [ok |-> FALSE, nan |-> FALSE, neg |-> FALSE, ip |-> 0, frac |-> <<>>]
NaN == [ok |-> TRUE, nan |-> TRUE, neg |-> FALSE, ip |-> 0, frac |-> <<>>]

\* the value of digits, optionally with one point among them
Number(neg, u) ==
    LET dot == IF Has(u, ".") THEN CHOOSE j \in 1..Len(u) : u[j] = "."
               ELSE Len(u) + 1
    IN  [ok |-> TRUE, nan |-> FALSE, neg |-> neg,
         ip |-> NumValue(SubSeq(u, 1, dot - 1)),
         frac |-> StripZeros(SubSeq(u, dot + 1, Len(u)))]

Signless(t) == IF t # <<>> /\ Head(t) \in {"-", "+"} THEN Tail(t) ELSE t
DotCount(u) == Cardinality({j \in 1..Len(u) : u[j] = "."})

\* float(t) for the texts of the model: a signed decimal with at most one
\* point, or the word nan in any case; anything else raises ValueError
PyFloat(t) ==
    LET u == Signless(t)
        neg == t # <<>> /\ Head(t) = "-"
    IN  IF Upper(u) = <<"N", "A", "N">> THEN NaN
        ELSE IF /\ \A j \in 1..Len(u) : u[j] \in Digits \cup {"."}
                /\ DotCount(u) <= 1
                /\ Len(u) > DotCount(u)
             THEN Number(neg, u)
             ELSE Raised

parse_num(txt) == PyFloat(DecimalPoint(Remove(Strip(txt), {" "})))

\* re.match(r"^-?\d+(\.\d+)?$", t)
IsMoneyText(t) ==
    LET u == IF t # <<>> /\ Head(t) = "-" THEN Tail(t) ELSE t
    IN  /\ u # <<>>
        /\ \A j \in 1..Len(u) : u[j] \in Digits \cup {"."}
        /\ DotCount(u) <= 1
        /\ u[1] # "." /\ u[Len(u)] # "."

parse_money(txt) ==
    LET t == DecimalPoint(Remove(Upper(Strip(txt)), {EUR, " "}))
    IN  IF IsMoneyText(t)
        THEN Number(Head(t) = "-", IF Head(t) = "-" THEN Tail(t) ELSE t)
        ELSE Raised

IsZero(x) == x.ip = 0 /\ x.frac = <<>>
LeZero(x) == ~x.nan /\ (x.neg \/ IsZero(x))            \* x <= 0
LtZero(x) == ~x.nan /\ x.neg /\ ~IsZero(x)             \* x < 0
GtInt(x, n) ==                                         \* x > n, for n >= 0
    ~x.nan /\ ~x.neg /\ (x.ip > n \/ (x.ip = n /\ x.frac # <<>>))

\* int(x) of a float: the truncation, ValueError for not-a-number
PyInt(x) ==
    IF ~x.ok \/ x.nan THEN [ok |-> FALSE, v |-> 0]
    ELSE [ok |-> TRUE, v |-> IF x.neg THEN 0 - x.ip ELSE x.ip]

\* leading zero digits after the point below which 1 + tan/1200 is 1.0 in
\* binary64 (tan < 1e-13 gives tan/1200 < 2^-53)
RoundoffDigits == 13

\* monthly_payment: r / (1 - (1 + r) ** (-months)) divides by zero when
\* r = tan/1200 is positive and 1 + r rounds to 1.0
monthly_payment(principal, tan_percent, months) ==
    IF /\ months > 0
       /\ ~tan_percent.nan
       /\ ~IsZero(tan_percent)
       /\ tan_percent.ip = 0
       /\ Len(tan_percent.frac) > RoundoffDigits
       /\ \A j \in 1..RoundoffDigits : tan_percent.frac[j] = "0"
    THEN "ZeroDivisionError"
    ELSE "float"

(***************************************************************************)
(* The conversations: what the user sends and which handler receives it    *)
(***************************************************************************)
MaxMenus == 2       \* menu entries taken in one behaviour

ConvSet == {Convs[j] : j \in 1..Len(Convs)}

\* the text of a menu button is one character of the model
BTN_AML == "BTN_AML"
BTN_CARD == "BTN_CARD"
BTN_BOTH == "BTN_BOTH"
BTN_NOTARY == "BTN_NOTARY"

\* entry_points of each ConversationHandler: the button its Regex looks for
EntryButton(h) ==
    CASE h = "both" -> BTN_BOTH
      [] h = "aml" -> BTN_AML
      [] h = "card" -> BTN_CARD
      [] h = "notary" -> BTN_NOTARY

Usual == <<"4", ",", "4", "0">>
NotANumber == <<"n", "a", "n">>
Tiny == <<"0", ",", "0", "0", "0", "0", "0", "0", "0", "0", "0", "0", "0",
          "0", "0", "1">>
Negative == <<"-", "5">>
Words == <<"x", "x">>
Dash == <<"-">>
Blank == <<" ">>

\* the texts tried on each handler: accepted and refused ones
Inputs(fn) ==
    CASE fn = "handle_menu" ->
            {<<BTN_BOTH>>, <<BTN_AML>>, <<BTN_CARD>>, <<BTN_NOTARY>>,
             <<BTN_BOTH, "x">>}
      [] fn = "ask_client" -> {Words, <<BTN_AML>>, Dash}
      [] fn = "ask_amount" -> {Usual, NotANumber, Negative}
      [] fn = "ask_tan" -> {Usual, NotANumber, Tiny, Negative}
      [] fn = "ask_eff" -> {Usual, Negative}
      [] fn = "ask_term" -> {Usual, NotANumber}
      [] fn = "ask_fee" -> {Usual, NotANumber}
      [] fn = "sdd_id" -> {Words, Dash}
      [] fn \in {"sdd_bic", "aml_id"} -> {Dash}
      [] fn = "notary_amount" -> {Usual, NotANumber, Negative}
      [] OTHER -> {Words, Blank}

\* states= of the ConversationHandlers: the handler of each state
StateHandler(st) ==
    CASE st = "ASK_CLIENT" -> "ask_client"
      [] st = "ASK_AMOUNT" -> "ask_amount"
      [] st = "ASK_TAN" -> "ask_tan"
      [] st = "ASK_EFF" -> "ask_eff"
      [] st = "ASK_TERM" -> "ask_term"
      [] st = "ASK_FEE" -> "ask_fee"
      [] st = "SDD_ADDR" -> "sdd_addr"
      [] st = "SDD_CITY" -> "sdd_city"
      [] st = "SDD_COUNTRY" -> "sdd_country"
      [] st = "SDD_ID" -> "sdd_id"
      [] st = "SDD_IBAN" -> "sdd_iban"
      [] st = "SDD_BIC" -> "sdd_bic"
      [] st = "AML_NAME" -> "aml_name"
      [] st = "AML_ID" -> "aml_id"
      [] st = "AML_IBAN" -> "aml_iban"
      [] st = "CARD_NAME" -> "card_name"
      [] st = "CARD_ADDR" -> "card_addr"
      [] st = "ASK_NOTARY_AMOUNT" -> "notary_amount"
      [] OTHER -> "none"

\* a ConversationHandler takes a text when an entry point matches it
\* (allow_reentry) or when the conversation is in a state
Takes(h, t) == Has(t, EntryButton(h)) \/ states[h] # "END"

\* the first handler added to the application that takes the text
Route(t) ==
    IF \E j \in 1..Len(Convs) : Takes(Convs[j], t)
    THEN Convs[SetMin({j \in 1..Len(Convs) : Takes(Convs[j], t)})]
    ELSE "none"

\* the CommandHandler for /start is added before the conversations
StartCommand == <<"/start">>

Handler(t) ==
    IF t = StartCommand THEN "start"
    ELSE IF Route(t) = "none" THEN "none"
    ELSE IF Has(t, EntryButton(Route(t))) THEN "handle_menu"
    ELSE StateHandler(states[Route(t)])

Text(body) == [kind |-> "text", body |-> body]
Document(body) == [kind |-> "document", body |-> body]

\* context.user_data[field] = v inside conversation h
Stored(h, ud, own, field, v) ==
    /\ user_data' = DictPut(ud, field, v)
    /\ mine' = [mine EXCEPT ![h] = DictPut(own, field, v)]

\* the handler answers with one text and returns state st
Returns(h, st, body) ==
    /\ states' = [states EXCEPT ![h] = st]
    /\ replies' = <<Text(body)>>
    /\ built' = <<>>

\* the input is refused: the question is repeated and the state returned
Refused(h) ==
    /\ Returns(h, states[h], "retry")
    /\ UNCHANGED <<user_data, mine>>

DEFAULT_BANK == [name |-> "ING Bank N.V.", addr |-> "Bijlmerdreef 106"]

enginevars == <<scanvars, new_amount_float, current_date, pipevars>>

\* a handler of the model received text t and nothing else changed
Handled(fn, t) ==
    /\ Handler(t) = fn
    /\ last' = t
    /\ UNCHANGED enginevars

\* the start command: the CommandHandler is added first and takes it
start ==
    /\ replies' = <<Text("hello")>>
    /\ built' = <<>>
    /\ last' = StartCommand
    /\ UNCHANGED <<states, user_data, mine, template, menus>>
    /\ UNCHANGED enginevars

handle_menu ==
    \E t \in Inputs("handle_menu") :
        /\ menus < MaxMenus
        /\ Handled("handle_menu", t)
        /\ menus' = menus + 1
        /\ UNCHANGED template
        /\ LET h == Route(t)
               ud == DictPut(DictPut(user_data, "bank_name", DEFAULT_BANK.name),
                             "bank_addr", DEFAULT_BANK.addr)
               own == DictPut(DictPut(EmptyDict, "bank_name", DEFAULT_BANK.name),
                              "bank_addr", DEFAULT_BANK.addr)
           IN  IF t = <<BTN_BOTH>>
               THEN Stored(h, ud, own, "flow", "both")
                    /\ Returns(h, "ASK_CLIENT", "ask")
               ELSE IF t = <<BTN_AML>>
               THEN Stored(h, ud, own, "flow", "aml")
                    /\ Returns(h, "AML_NAME", "ask")
               ELSE IF t = <<BTN_CARD>>
               THEN Stored(h, ud, own, "flow", "card")
                    /\ Returns(h, "CARD_NAME", "ask")
               ELSE IF t = <<BTN_NOTARY>>
               THEN Stored(h, ud, own, "flow", "notary_pdf")
                    /\ Returns(h, "ASK_NOTARY_AMOUNT", "ask")
               ELSE /\ user_data' = ud
                    /\ mine' = [mine EXCEPT ![h] = own]
                    /\ Returns(h, "END", "menu")

\* variant: the name is stored before it is looked at
ask_client_stores_first ==
    \E t \in Inputs("ask_client") :
        /\ Handled("ask_client", t)
        /\ UNCHANGED <<menus, template>>
        /\ LET h == Route(t)
               name == Strip(t)
           IN  IF Len(name) < 2
               THEN /\ Stored(h, user_data, mine[h], "client", name)
                    /\ Returns(h, states[h], "retry")
               ELSE /\ Stored(h, user_data, mine[h], "client", name)
                    /\ Returns(h, "ASK_AMOUNT", "ask")

ask_client ==
    \E t \in Inputs("ask_client") :
        /\ Handled("ask_client", t)
        /\ UNCHANGED <<menus, template>>
        /\ LET h == Route(t)
               name == Strip(t)
           IN  IF Len(name) < 2
               THEN Refused(h)
               ELSE /\ Stored(h, user_data, mine[h], "client", name)
                    /\ Returns(h, "ASK_AMOUNT", "ask")

ask_amount ==
    \E t \in Inputs("ask_amount") :
        /\ Handled("ask_amount", t)
        /\ UNCHANGED <<menus, template>>
        /\ LET h == Route(t)
               amount == parse_num(t)
           IN  IF ~amount.ok \/ LeZero(amount)
               THEN Refused(h)
               ELSE /\ Stored(h, user_data, mine[h], "amount", amount)
                    /\ Returns(h, "ASK_TAN", "ask")

ask_tan ==
    \E t \in Inputs("ask_tan") :
        /\ Handled("ask_tan", t)
        /\ UNCHANGED <<menus, template>>
        /\ LET h == Route(t)
               tan == parse_num(t)
           IN  IF ~tan.ok \/ LtZero(tan) \/ GtInt(tan, 50)
               THEN Refused(h)
               ELSE /\ Stored(h, user_data, mine[h], "tan", tan)
                    /\ Returns(h, "ASK_EFF", "ask")

ask_eff ==
    \E t \in Inputs("ask_eff") :
        /\ Handled("ask_eff", t)
        /\ UNCHANGED <<menus, template>>
        /\ LET h == Route(t)
               eff == parse_num(t)
           IN  IF ~eff.ok \/ LtZero(eff) \/ GtInt(eff, 60)
               THEN Refused(h)
               ELSE /\ Stored(h, user_data, mine[h], "eff", eff)
                    /\ Returns(h, "ASK_TERM", "ask")

\* variant: the term is checked but not stored
ask_term_no_store ==
    \E t \in Inputs("ask_term") :
        /\ Handled("ask_term", t)
        /\ UNCHANGED <<menus, template>>
        /\ LET h == Route(t)
               term == PyInt(parse_num(t))
           IN  IF ~term.ok \/ term.v <= 0 \/ term.v > 144
               THEN Refused(h)
               ELSE /\ UNCHANGED <<user_data, mine>>
                    /\ Returns(h, "ASK_FEE", "ask")

ask_term ==
    \E t \in Inputs("ask_term") :
        /\ Handled("ask_term", t)
        /\ UNCHANGED <<menus, template>>
        /\ LET h == Route(t)
               term == PyInt(parse_num(t))
           IN  IF ~term.ok \/ term.v <= 0 \/ term.v > 144
               THEN Refused(h)
               ELSE /\ Stored(h, user_data, mine[h], "term", term.v)
                    /\ Returns(h, "ASK_FEE", "ask")

\* values.get(key, default)
Get(values, key, default) ==
    IF key \in DOMAIN values THEN values[key] ELSE default

Zero == Number(FALSE, <<"0">>)

\* the builders: what a call returns or raises, and the fields it reads
build_contract_pdf(values) ==
    IF monthly_payment(Get(values, "amount", Zero), Get(values, "tan", Zero),
                       Get(values, "term", 0)) = "ZeroDivisionError"
    THEN "ZeroDivisionError"
    ELSE "bytes"

Reads(fn) ==
    CASE fn = "build_contract_pdf" ->
            {"client", "amount", "tan", "eff", "term", "bank_name",
             "service_fee_eur"}
      [] fn = "bank_confirmation_build_pdf" ->
            {"client", "amount", "tan", "term", "bank_name", "service_fee_eur"}
      [] fn = "sepa_build_pdf" ->
            {"name", "addr", "capcity", "country", "idnum", "iban", "bic",
             "bank_name", "bank_addr"}
      [] fn = "aml_build_pdf" ->
            {"aml_name", "aml_id", "aml_iban", "bank_name", "bank_addr"}
      [] fn = "card_build_pdf" -> {"card_name", "card_addr", "bank_name"}
      [] OTHER -> {}

\* a call of a builder by conversation h, with the dict it was handed and
\* what the run had written by then
Call(fn, h, values, own) == [fn |-> fn, h |-> h, values |-> values, own |-> own]

ask_fee ==
    \E t \in Inputs("ask_fee") :
        /\ Handled("ask_fee", t)
        /\ UNCHANGED <<menus, template>>
        /\ LET h == Route(t)
               fee == parse_money(t)
               ud == DictPut(user_data, "service_fee_eur", fee)
               own == DictPut(mine[h], "service_fee_eur", fee)
               name == Get(ud, "client", <<>>)
           IN  IF ~fee.ok \/ LtZero(fee) \/ GtInt(fee, 1000000)
               THEN Refused(h)
               ELSE IF build_contract_pdf(ud) # "bytes"
               THEN \* the exception leaves the handler: no answer, no new state
                    /\ user_data' = ud
                    /\ mine' = [mine EXCEPT ![h] = own]
                    /\ built' = <<Call("build_contract_pdf", h, ud, own)>>
                    /\ replies' = <<>>
                    /\ UNCHANGED states
               ELSE /\ built' = <<Call("build_contract_pdf", h, ud, own),
                                  Call("bank_confirmation_build_pdf", h, ud, own)>>
                    /\ IF Get(ud, "flow", "") = "both"
                       THEN /\ Stored(h, ud, own, "name", name)
                            /\ states' = [states EXCEPT ![h] = "SDD_ADDR"]
                            /\ replies' = <<Document("contract"),
                                            Document("confirmation"), Text("ask")>>
                       ELSE /\ user_data' = ud
                            /\ mine' = [mine EXCEPT ![h] = own]
                            /\ states' = [states EXCEPT ![h] = "END"]
                            /\ replies' = <<Document("contract"),
                                            Document("confirmation")>>

sdd_addr ==
    \E t \in Inputs("sdd_addr") :
        /\ Handled("sdd_addr", t)
        /\ UNCHANGED <<menus, template>>
        /\ LET h == Route(t)
               v == Strip(t)
           IN  IF v = <<>>
               THEN Refused(h)
               ELSE /\ Stored(h, user_data, mine[h], "addr", v)
                    /\ Returns(h, "SDD_CITY", "ask")

sdd_city ==
    \E t \in Inputs("sdd_city") :
        /\ Handled("sdd_city", t)
        /\ UNCHANGED <<menus, template>>
        /\ LET h == Route(t)
               v == Strip(t)
           IN  IF v = <<>>
               THEN Refused(h)
               ELSE /\ Stored(h, user_data, mine[h], "capcity", v)
                    /\ Returns(h, "SDD_COUNTRY", "ask")

sdd_country ==
    \E t \in Inputs("sdd_country") :
        /\ Handled("sdd_country", t)
        /\ UNCHANGED <<menus, template>>
        /\ LET h == Route(t)
               v == Strip(t)
           IN  IF v = <<>>
               THEN Refused(h)
               ELSE /\ Stored(h, user_data, mine[h], "country", v)
                    /\ Returns(h, "SDD_ID", "ask")

sdd_id ==
    \E t \in Inputs("sdd_id") :
        /\ Handled("sdd_id", t)
        /\ UNCHANGED <<menus, template>>
        /\ LET h == Route(t)
               v == Strip(t)
           IN  /\ Stored(h, user_data, mine[h], "idnum",
                         IF v = <<"-">> THEN <<>> ELSE v)
               /\ Returns(h, "SDD_IBAN", "ask")

sdd_iban ==
    \E t \in Inputs("sdd_iban") :
        /\ Handled("sdd_iban", t)
        /\ UNCHANGED <<menus, template>>
        /\ LET h == Route(t)
               iban == Remove(t, {" "})
           IN  IF iban = <<>>
               THEN Refused(h)
               ELSE /\ Stored(h, user_data, mine[h], "iban", iban)
                    /\ Returns(h, "SDD_BIC", "ask")

sdd_bic ==
    \E t \in Inputs("sdd_bic") :
        /\ Handled("sdd_bic", t)
        /\ UNCHANGED <<menus, template>>
        /\ LET h == Route(t)
               v == IF Strip(t) = <<"-">> THEN <<>> ELSE Strip(t)
               ud == DictPut(user_data, "bic", v)
               own == DictPut(mine[h], "bic", v)
           IN  /\ user_data' = ud
               /\ mine' = [mine EXCEPT ![h] = own]
               /\ built' = <<Call("sepa_build_pdf", h, ud, own)>>
               /\ replies' = <<Document("sepa")>>
               /\ states' = [states EXCEPT ![h] = "END"]

aml_name ==
    \E t \in Inputs("aml_name") :
        /\ Handled("aml_name", t)
        /\ UNCHANGED <<menus, template>>
        /\ LET h == Route(t)
               v == Strip(t)
           IN  IF v = <<>>
               THEN Refused(h)
               ELSE /\ Stored(h, user_data, mine[h], "aml_name", v)
                    /\ Returns(h, "AML_ID", "ask")

aml_id ==
    \E t \in Inputs("aml_id") :
        /\ Handled("aml_id", t)
        /\ UNCHANGED <<menus, template>>
        /\ LET h == Route(t)
               v == Strip(t)
           IN  /\ Stored(h, user_data, mine[h], "aml_id",
                         IF v = <<"-">> THEN <<>> ELSE v)
               /\ Returns(h, "AML_IBAN", "ask")

aml_iban ==
    \E t \in Inputs("aml_iban") :
        /\ Handled("aml_iban", t)
        /\ UNCHANGED <<menus, template>>
        /\ LET h == Route(t)
               v == Remove(t, {" "})
               ud == DictPut(user_data, "aml_iban", v)
               own == DictPut(mine[h], "aml_iban", v)
           IN  IF v = <<>>
               THEN Refused(h)
               ELSE /\ user_data' = ud
                    /\ mine' = [mine EXCEPT ![h] = own]
                    /\ built' = <<Call("aml_build_pdf", h, ud, own)>>
                    /\ replies' = <<Document("aml")>>
                    /\ states' = [states EXCEPT ![h] = "END"]

card_name ==
    \E t \in Inputs("card_name") :
        /\ Handled("card_name", t)
        /\ UNCHANGED <<menus, template>>
        /\ LET h == Route(t)
               v == Strip(t)
           IN  IF v = <<>>
               THEN Refused(h)
               ELSE /\ Stored(h, user_data, mine[h], "card_name", v)
                    /\ Returns(h, "CARD_ADDR", "ask")

card_addr ==
    \E t \in Inputs("card_addr") :
        /\ Handled("card_addr", t)
        /\ UNCHANGED <<menus, template>>
        /\ LET h == Route(t)
               v == Strip(t)
               ud == DictPut(user_data, "card_addr", v)
               own == DictPut(mine[h], "card_addr", v)
           IN  IF v = <<>>
               THEN Refused(h)
               ELSE /\ user_data' = ud
                    /\ mine' = [mine EXCEPT ![h] = own]
                    /\ built' = <<Call("card_build_pdf", h, ud, own)>>
                    /\ replies' = <<Document("card")>>
                    /\ states' = [states EXCEPT ![h] = "END"]

\* variant: the engine is called without looking for the template
notary_amount_no_template_check ==
    \E t \in Inputs("notary_amount") : \E outcome \in {"bytes", "raises"} :
      \E exists \in BOOLEAN :
        /\ Handled("notary_amount", t)
        /\ template' = exists
        /\ UNCHANGED <<menus, user_data, mine>>
        /\ LET h == Route(t)
               amt == parse_money(Strip(t))
           IN  IF ~amt.ok \/ LeZero(amt)
               THEN Returns(h, "ASK_NOTARY_AMOUNT", "retry")
               ELSE IF FALSE
               THEN Returns(h, "END", "no_template")
               ELSE /\ built' = <<[fn |-> "notary_replace_amount_pdf_purepy",
                                   h |-> h, values |-> amt, own |-> amt]>>
                    /\ replies' = IF outcome = "raises"
                                  THEN <<Text("pdf_error")>>
                                  ELSE <<Document("notary")>>
                    /\ states' = [states EXCEPT ![h] = "END"]

\* variant: any amount that parses is taken
notary_amount_any_sign ==
    \E t \in Inputs("notary_amount") : \E outcome \in {"bytes", "raises"} :
      \E exists \in BOOLEAN :
        /\ Handled("notary_amount", t)
        /\ template' = exists
        /\ UNCHANGED <<menus, user_data, mine>>
        /\ LET h == Route(t)
               amt == parse_money(Strip(t))
           IN  IF ~amt.ok
               THEN Returns(h, "ASK_NOTARY_AMOUNT", "retry")
               ELSE IF ~exists
               THEN Returns(h, "END", "no_template")
               ELSE /\ built' = <<[fn |-> "notary_replace_amount_pdf_purepy",
                                   h |-> h, values |-> amt, own |-> amt]>>
                    /\ replies' = IF outcome = "raises"
                                  THEN <<Text("pdf_error")>>
                                  ELSE <<Document("notary")>>
                    /\ states' = [states EXCEPT ![h] = "END"]

\* the whole handler: the amount is parsed, the template looked for, the
\* engine called and its result sent; whether the template file exists is
\* found out when the handler runs
notary_amount ==
    \E t \in Inputs("notary_amount") : \E outcome \in {"bytes", "raises"} :
      \E exists \in BOOLEAN :
        /\ Handled("notary_amount", t)
        /\ template' = exists
        /\ UNCHANGED <<menus, user_data, mine>>
        /\ LET h == Route(t)
               amt == parse_money(Strip(t))
           IN  IF ~amt.ok \/ LeZero(amt)
               THEN Returns(h, "ASK_NOTARY_AMOUNT", "retry")
               ELSE IF ~exists
               THEN Returns(h, "END", "no_template")
               ELSE /\ built' = <<[fn |-> "notary_replace_amount_pdf_purepy",
                                   h |-> h, values |-> amt, own |-> amt]>>
                    /\ replies' = IF outcome = "raises"
                                  THEN <<Text("pdf_error")>>
                                  ELSE <<Document("notary")>>
                    /\ states' = [states EXCEPT ![h] = "END"]

BotInit ==
    /\ states = [h \in ConvSet |-> "END"]
    /\ user_data = EmptyDict
    /\ mine = [h \in ConvSet |-> EmptyDict]
    /\ replies = <<>>
    /\ built = <<>>
    /\ template = TRUE
    /\ menus = 0
    /\ last = <<>>
    /\ sline = InputLine(<<>>, 1)
    /\ shits = <<>>
    /\ stexts = <<>>
    /\ sops = <<>>
    /\ spc = "off"
    /\ new_amount_float = 0
    /\ current_date = <<>>
    /\ doc = [ok |-> TRUE, pages |-> <<>>]
    /\ pc = "off"
    /\ pageno = 0
    /\ matches_by_page = EmptyDict
    /\ canv = None
    /\ overlay = <<>>
    /\ writer = <<>>
    /\ result = "none"
    /\ run = 1
    /\ prev = NoPrev
    /\ fontfile = "absent"
    /\ environ = "unset"
    /\ registry = ImportedFonts
    /\ conv = "END"
    /\ sent = <<>>

BotNext ==
    \/ start
    \/ handle_menu
    \/ ask_client
    \/ ask_amount
    \/ ask_tan
    \/ ask_eff
    \/ ask_term
    \/ ask_fee
    \/ sdd_addr
    \/ sdd_city
    \/ sdd_country
    \/ sdd_id
    \/ sdd_iban
    \/ sdd_bic
    \/ aml_name
    \/ aml_id
    \/ aml_iban
    \/ card_name
    \/ card_addr
    \/ notary_amount

SpecBot == BotInit /\ [][BotNext]_vars

ENGINE == "notary_replace_amount_pdf_purepy"

\* the states of the flows in the order the handlers return them
FlowOrder ==
    <<"ASK_CLIENT", "ASK_AMOUNT", "ASK_TAN", "ASK_EFF", "ASK_TERM", "ASK_FEE",
      "SDD_ADDR", "SDD_CITY", "SDD_COUNTRY", "SDD_ID", "SDD_IBAN", "SDD_BIC",
      "AML_NAME", "AML_ID", "AML_IBAN", "CARD_NAME", "CARD_ADDR",
      "ASK_NOTARY_AMOUNT", "END">>
Rank(st) == CHOOSE j \in 1..Len(FlowOrder) : FlowOrder[j] = st

IsDocument(m) == m.kind = "document"
SentDocument(msgs) == \E j \in 1..Len(msgs) : IsDocument(msgs[j])
Retried(msgs) == \E j \in 1..Len(msgs) : msgs[j] = Text("retry")

\* x > 0, and lo <= x <= hi for integers 0 <= lo <= hi
IsPositive(x) == x.ok /\ ~x.nan /\ ~x.neg /\ ~IsZero(x)
Within(x, hi) ==
    x.ok /\ ~x.nan /\ (~x.neg \/ IsZero(x))
         /\ (x.ip < hi \/ (x.ip = hi /\ x.frac = <<>>))

(***************************************************************************)
(* C25: when notary_amount handles a valid amount and the template file is *)
(* absent, the engine is not called, no document is sent, one failure      *)
(* message is sent and the conversation ends.                              *)
(***************************************************************************)
C25_NoTemplateIsFatal ==
    [][(Handler(last') = "notary_amount"
          /\ IsPositive(parse_money(Strip(last')))
          /\ ~template')
        => /\ built' = <<>>
           /\ replies' = <<Text("no_template")>>
           /\ states'["notary"] = "END"]_vars

C25_Witness ==
    /\ ~template
    /\ last = Usual
    /\ replies = <<Text("no_template")>>
    /\ states["notary"] = "END"

(***************************************************************************)
(* C26: the contract conversation is linear: a step handler leaves its     *)
(* state only for the next one of ASK_CLIENT .. ASK_FEE, SDD_ADDR ..       *)
(* SDD_BIC, END, and build_contract_pdf is called only with a client of    *)
(* two characters or more, amount > 0, 0 <= tan <= 50, 0 <= eff <= 60,     *)
(* 1 <= term <= 144 and 0 <= fee <= 1000000.                               *)
(***************************************************************************)
C26_LinearAndValid ==
    [][/\ (states'["both"] # states["both"] /\ Handler(last') # "handle_menu")
            => Rank(states'["both"]) = Rank(states["both"]) + 1
                 \/ (states["both"] = "SDD_BIC" /\ states'["both"] = "END")
       /\ \A j \in 1..Len(built') :
              built'[j].fn = "build_contract_pdf" =>
                  LET v == built'[j].values
                  IN  /\ Len(Get(v, "client", <<>>)) >= 2
                      /\ IsPositive(Get(v, "amount", Zero))
                      /\ Within(Get(v, "tan", NaN), 50)
                      /\ Within(Get(v, "eff", NaN), 60)
                      /\ Get(v, "term", 0) \in 1..144
                      /\ Within(Get(v, "service_fee_eur", NaN), 1000000)]_vars

(***************************************************************************)
(* C27: no stale field reaches a document: whenever a flow calls a PDF     *)
(* builder, every field the builder reads holds the value the current run  *)
(* of that flow wrote since its menu entry.                                *)
(***************************************************************************)
C27_NoStaleField ==
    \A j \in 1..Len(built) :
        built[j].fn # ENGINE =>
            \A f \in Reads(built[j].fn) :
                /\ f \in DOMAIN built[j].own
                /\ f \in DOMAIN built[j].values
                /\ built[j].values[f] = built[j].own[f]

\* the SEPA mandate is built in the second run the user has started
C27_Witness ==
    /\ menus = 2
    /\ built # <<>>
    /\ built[1].fn = "sepa_build_pdf"
    /\ states["aml"] # "END"

(***************************************************************************)
(* C28: a step handler that refuses its input returns its own state,       *)
(* leaves user_data as it was and sends no document.                       *)
(***************************************************************************)
C28_RefusalChangesNothing ==
    [][(Handler(last') \notin {"none", "start", "handle_menu"} /\ Retried(replies'))
        => /\ states' = states
           /\ user_data' = user_data
           /\ ~SentDocument(replies')
           /\ built' = <<>>]_vars

C28_Witness ==
    /\ Retried(replies)
    /\ states["both"] = "SDD_IBAN"
    /\ last = Blank

(***************************************************************************)
(* C29: the engine is called only with a strictly positive amount and only *)
(* while the template exists; a text that is no money amount, or an amount *)
(* <= 0, keeps the conversation in ASK_NOTARY_AMOUNT with no engine call.  *)
(***************************************************************************)
C29_EngineOnlyOnPositive ==
    [][/\ \A j \in 1..Len(built') :
              built'[j].fn = ENGINE =>
                  IsPositive(built'[j].values) /\ template'
       /\ (Handler(last') = "notary_amount"
             /\ ~IsPositive(parse_money(Strip(last'))))
            => /\ states'["notary"] = "ASK_NOTARY_AMOUNT"
               /\ built' = <<>>
               /\ ~SentDocument(replies')]_vars

C29_Witness ==
    /\ states["notary"] = "ASK_NOTARY_AMOUNT"
    /\ last = Negative
    /\ Retried(replies)
    /\ built = <<>>

(***************************************************************************)
(* C30: every flow terminates: an input a step handler does not refuse     *)
(* moves its conversation to a later state of the flow, so that END is     *)
(* reached after a bounded number of messages.                             *)
(***************************************************************************)
C30_ValidInputAdvances ==
    [][(Handler(last') \notin {"none", "start", "handle_menu"} /\ ~Retried(replies'))
        => Rank(states'[Route(last')]) > Rank(states[Route(last')])]_vars

====
